---------------------------- MODULE Spec2Model ----------------------------
(***************************************************************************)
(* Model of att-field-tools (src/att_tools.py, src/api.py).                *)
(*                                                                         *)
(* Text is a sequence of one-character strings, so that strip(), lower(),  *)
(* slicing and substring search are computed character by character.       *)
(* A Python value is a tagged record: Num(n), Str(s) or PyNone.  A dict is *)
(* a function from its keys to such values; a missing key is a key outside *)
(* DOMAIN.                                                                 *)
(*                                                                         *)
(* Durations are counted in eighths of a minute (Num(80) is 10.0 minutes): *)
(* every such value and every sum of them is exact in binary floating      *)
(* point.  Values that went through round(x, 2) are counted in hundredths. *)
(***************************************************************************)
EXTENDS Integers, Sequences, FiniteSets, TLC

VARIABLES
    jobs,       \* compute_stats: the argument
    stats,      \* compute_stats: the outcome (NotRun, a report or a raise)
    args,       \* create_job: the six arguments and the clock reading
    created,    \* create_job: the returned dict (NotRun before the call)
    file,       \* jobs.json: [kind, jobs, readable]
    pc,         \* add_job: where each caller stands (idle, loaded, opened)
    call,       \* add_job: each caller's argument and the file it started from
    local,      \* add_job: each caller's local list 'jobs'
    out,        \* add_job: each caller's last outcome, return value and prints
    resp,       \* REST facade: each caller's last response
    sheet,      \* the 'Jobs' worksheet: its data rows, cell by cell
    pushed,     \* append_job_to_sheet: the job handed over and the result
    pulled      \* load_jobs_from_sheet: the returned list (NotRun before)

vars == <<jobs, stats, args, created, file, pc, call, local, out,
          resp, sheet, pushed, pulled>>
statsVars == <<jobs, stats>>
createVars == <<args, created>>
storeVars == <<file, pc, call, local, out>>
apiVars == <<resp>>
sheetVars == <<sheet, pushed, pulled>>

-----------------------------------------------------------------------------
(* Python values *)

Num(n) == [t |-> "num", v |-> n]
Str(s) == [t |-> "str", v |-> s]
PyNone == [t |-> "none", v |-> 0]
NotRun == [t |-> "notrun", v |-> 0]

\* dict.get(key, default)
Get(d, k, default) == IF k \in DOMAIN d THEN d[k] ELSE default

\* bool(x) for the values above
Truthy(x) ==
    CASE x.t = "none" -> FALSE
      [] x.t = "num"  -> x.v # 0
      [] x.t = "str"  -> Len(x.v) > 0
      [] OTHER        -> TRUE

\* a or b
Or(a, b) == IF Truthy(a) THEN a ELSE b

-----------------------------------------------------------------------------
(* Text *)

UpperChars == <<"A","B","C","D","E","F","G","H","I","J","K","L","M",
                "N","O","P","Q","R","S","T","U","V","W","X","Y","Z">>
LowerChars == <<"a","b","c","d","e","f","g","h","i","j","k","l","m",
                "n","o","p","q","r","s","t","u","v","w","x","y","z">>
DigitChars == <<"0","1","2","3","4","5","6","7","8","9">>
Whitespace == {" ", "\t", "\n", "\r"}

LowerChar(c) ==
    IF \E i \in DOMAIN UpperChars : UpperChars[i] = c
    THEN LowerChars[CHOOSE i \in DOMAIN UpperChars : UpperChars[i] = c]
    ELSE c

\* str.lower()
Lower(s) == [i \in DOMAIN s |-> LowerChar(s[i])]

\* word in s
Contains(s, word) ==
    \E i \in 1..(Len(s) - Len(word) + 1) : SubSeq(s, i, i + Len(word) - 1) = word

RECURSIVE LStrip(_)
LStrip(s) == IF s # <<>> /\ Head(s) \in Whitespace THEN LStrip(Tail(s)) ELSE s

RECURSIVE RStrip(_)
RStrip(s) ==
    IF s # <<>> /\ s[Len(s)] \in Whitespace
    THEN RStrip(SubSeq(s, 1, Len(s) - 1))
    ELSE s

\* str.lstrip() in place of str.strip()
Strip_LeftOnly(s) == LStrip(s)

\* str.strip()
Strip(s) == RStrip(LStrip(s))

\* s[:n]
Prefix(s, n) == SubSeq(s, 1, IF Len(s) < n THEN Len(s) ELSE n)


RECURSIVE DigitsValue(_)
\* the number a non-empty run of decimal digits denotes
DigitsValue(s) ==
    IF s = <<>> THEN 0
    ELSE 10 * DigitsValue(SubSeq(s, 1, Len(s) - 1))
         + (CHOOSE d \in 0..9 : DigitChars[d + 1] = s[Len(s)])

IsDigits(s) ==
    /\ s # <<>>
    /\ \A i \in DOMAIN s : \E d \in DOMAIN DigitChars : DigitChars[d] = s[i]

-----------------------------------------------------------------------------
(* Numbers *)

\* m whole minutes as a duration (durations count eighths of a minute)
Minutes(m) == 8 * m

\* float(x) on a number or on a text holding an unsigned decimal integer
\* (surrounding whitespace allowed); any other text raises ValueError
Float(x) ==
    CASE x.t = "num" -> [ok |-> TRUE, v |-> x.v]
      [] x.t = "str" /\ IsDigits(Strip(x.v))
                     -> [ok |-> TRUE, v |-> Minutes(DigitsValue(Strip(x.v)))]
      [] OTHER       -> [ok |-> FALSE, v |-> 0]

\* the integer nearest to a / b (b > 0), an exact tie going to the even one:
\* round() on a value that is exact in binary floating point
RoundHalfEven(a, b) ==
    LET q == a \div b
        r == a % b
    IN  IF 2 * r < b THEN q
        ELSE IF 2 * r > b THEN q + 1
        ELSE IF q % 2 = 0 THEN q ELSE q + 1

\* round(x, 2) of x = a / b, in hundredths
Round2(a, b) == RoundHalfEven(100 * a, b)

-----------------------------------------------------------------------------
(* compute_stats *)

Unknown == <<"U","n","k","n","o","w","n">>

bad_signal_words == { <<"b","a","d">>, <<"p","o","o","r">>,
                      <<"w","e","a","k">>, <<"l","o","w">> }

\* job.get("duration", 0.0) or 0.0
DurationArg(job) == Or(Get(job, "duration", Num(0)), Num(0))

\* job.get(key, "Unknown"): the fallback for a missing key only
LabelOf_MissingOnly(job, key) == Get(job, key, Str(Unknown))

\* job.get(key) or "Unknown"
LabelOf(job, key) == Or(Get(job, key, PyNone), Str(Unknown))

\* (job.get("signal") or "").lower()
SignalOf(job) == Lower(Or(Get(job, "signal", PyNone), Str(<<>>)).v)

\* the whole start_time as the key whenever it has 10 characters or more
DateKey_NoSlice(job) ==
    LET start == Or(Get(job, "start_time", PyNone), Str(<<>>)).v
    IN  IF Len(start) >= 10 THEN Str(start) ELSE Str(Unknown)

\* start[:10] if len(start) >= 10 else "Unknown"
DateKey(job) ==
    LET start == Or(Get(job, "start_time", PyNone), Str(<<>>)).v
    IN  IF Len(start) >= 10 THEN Str(Prefix(start, 10)) ELSE Str(Unknown)

\* an exact match against the vocabulary in place of a substring search
IsBadSignal_Exact(s) == s \in bad_signal_words

\* any(word in s for word in bad_signal_words)
IsBadSignal(s) == \E word \in bad_signal_words : Contains(s, word)

RECURSIVE SumDur_SkipFirst(_)
\* a sum that leaves the first element out
SumDur_SkipFirst(durations) ==
    IF Len(durations) <= 1 THEN 0
    ELSE SumDur_SkipFirst(SubSeq(durations, 1, Len(durations) - 1))
         + durations[Len(durations)][1]

RECURSIVE SumDur(_)
\* sum(d for d, _ in durations)
SumDur(durations) ==
    IF durations = <<>> THEN 0
    ELSE SumDur(SubSeq(durations, 1, Len(durations) - 1))
         + durations[Len(durations)][1]

RECURSIVE MaxScan_LastWins(_, _, _)
\* a scan that lets a later equal element replace the candidate
MaxScan_LastWins(key, i, best) ==
    IF i > Len(key) THEN best
    ELSE MaxScan_LastWins(key, i + 1, IF key[i] >= key[best] THEN i ELSE best)

RECURSIVE MaxScan(_, _, _)
\* max(seq, key=...): the scan keeps its candidate unless a later element is
\* strictly greater.  key[i] is the key of element i; the result is an index.
MaxScan(key, i, best) ==
    IF i > Len(key) THEN best
    ELSE MaxScan(key, i + 1, IF key[i] > key[best] THEN i ELSE best)

RECURSIVE MinScan(_, _, _)
\* min(seq, key=...): the candidate changes only for a strictly smaller element
MinScan(key, i, best) ==
    IF i > Len(key) THEN best
    ELSE MinScan(key, i + 1, IF key[i] < key[best] THEN i ELSE best)

\* Counter: entries in first-insertion order, as a dict keeps them
CounterAdd(c, x) ==
    IF \E i \in DOMAIN c : c[i].key = x
    THEN [i \in DOMAIN c |->
            IF c[i].key = x THEN [key |-> x, n |-> c[i].n + 1] ELSE c[i]]
    ELSE Append(c, [key |-> x, n |-> 1])

RECURSIVE Counter(_)
\* Counter(xs)
Counter(xs) ==
    IF xs = <<>> THEN <<>>
    ELSE CounterAdd(Counter(SubSeq(xs, 1, Len(xs) - 1)), xs[Len(xs)])

\* dict(counter): the mapping without its order
Dict(c) ==
    [k \in {c[i].key : i \in DOMAIN c} |->
        c[CHOOSE i \in DOMAIN c : c[i].key = k].n]

\* the last of the entries with the highest count
MostCommon1_LastWins(c) ==
    c[CHOOSE i \in DOMAIN c :
        /\ \A k \in DOMAIN c : c[k].n <= c[i].n
        /\ \A k \in (i + 1)..Len(c) : c[k].n < c[i].n].key

\* counter.most_common(1)[0][0]: max over the items in insertion order
MostCommon1(c) == c[MaxScan([i \in DOMAIN c |-> c[i].n], 1, 1)].key

\* an empty-collection report that carries most_common_issue = "N/A"
EmptyStats_WithIssue ==
    [ total_jobs         |-> 0,
      total_minutes      |-> 0,
      avg_minutes        |-> 0,
      longest_job        |-> PyNone,
      shortest_job       |-> PyNone,
      jobs_per_tech      |-> <<>>,
      jobs_per_address   |-> <<>>,
      jobs_per_day       |-> <<>>,
      bad_signal_count   |-> 0,
      bad_signal_percent |-> 0,
      most_common_issue  |-> Str(<<"N","/","A">>) ]

\* the report of the empty-collection branch
EmptyStats ==
    [ total_jobs         |-> 0,
      total_minutes      |-> 0,
      avg_minutes        |-> 0,
      longest_job        |-> PyNone,
      shortest_job       |-> PyNone,
      jobs_per_tech      |-> <<>>,
      jobs_per_address   |-> <<>>,
      jobs_per_day       |-> <<>>,
      bad_signal_count   |-> 0,
      bad_signal_percent |-> 0 ]

\* the report of a non-empty collection whose durations all convert
FullStats(js) ==
    LET durations    == [i \in DOMAIN js |-> <<Float(DurationArg(js[i])).v, js[i]>>]
        techs        == [i \in DOMAIN js |-> LabelOf(js[i], "tech")]
        addresses    == [i \in DOMAIN js |-> LabelOf(js[i], "address")]
        issues       == [i \in DOMAIN js |-> LabelOf(js[i], "issue")]
        signals      == [i \in DOMAIN js |-> SignalOf(js[i])]
        dates        == [i \in DOMAIN js |-> DateKey(js[i])]
        durkey       == [i \in DOMAIN js |-> durations[i][1]]
        total_jobs   == Len(durations)
        total_minutes == SumDur(durations)
        bad_signal_count ==
            Cardinality({i \in DOMAIN signals : IsBadSignal(signals[i])})
    IN  [ total_jobs         |-> total_jobs,
          total_minutes      |-> Round2(total_minutes, 8),
          avg_minutes        |-> Round2(total_minutes, 8 * total_jobs),
          longest_job        |-> durations[MaxScan(durkey, 1, 1)][2],
          shortest_job       |-> durations[MinScan(durkey, 1, 1)][2],
          jobs_per_tech      |-> Dict(Counter(techs)),
          jobs_per_address   |-> Dict(Counter(addresses)),
          jobs_per_day       |-> Dict(Counter(dates)),
          bad_signal_count   |-> bad_signal_count,
          bad_signal_percent |-> Round2(100 * bad_signal_count, total_jobs),
          most_common_issue  |-> MostCommon1(Counter(issues)) ]

\* compute_stats(jobs): a report, or the ValueError of the first float() that
\* cannot convert a duration
compute_stats(js) ==
    IF js = <<>> THEN [t |-> "report", v |-> EmptyStats]
    ELSE IF \E i \in DOMAIN js : ~Float(DurationArg(js[i])).ok
    THEN [t |-> "raise", v |-> "ValueError"]
    ELSE [t |-> "report", v |-> FullStats(js)]

-----------------------------------------------------------------------------
(* create_job *)

RECURSIVE DigitsOf(_)
\* the decimal digits of n >= 0
DigitsOf(n) ==
    IF n < 10 THEN <<DigitChars[n + 1]>>
    ELSE Append(DigitsOf(n \div 10), DigitChars[(n % 10) + 1])

RECURSIVE ZeroPad(_, _)
\* n in decimal, zero-padded on the left to width w
ZeroPad(n, w) ==
    IF Len(DigitsOf(n)) >= w THEN DigitsOf(n)
    ELSE <<"0">> \o ZeroPad(n, w - 1)

\* now.strftime("%Y-%m-%d %H:%M")
Strftime(now) ==
    ZeroPad(now.year, 4) \o <<"-">> \o ZeroPad(now.month, 2) \o <<"-">>
    \o ZeroPad(now.day, 2) \o <<" ">> \o ZeroPad(now.hour, 2) \o <<":">>
    \o ZeroPad(now.minute, 2)

\* str(x)
PyStr(x) == IF x.t = "num" THEN DigitsOf(x.v) ELSE x.v

\* create_job(job_id, address, issue, resolution, signal, tech_name), with
\* the reading datetime.now() returns
create_job(job_id, address, issue, resolution, signal, tech_name, now) ==
    LET start_time       == Strftime(now)
        end_time         == Strftime(now)
        duration_minutes == Num(0)
    IN  [ id               |-> Str(Strip(PyStr(job_id))),
          address          |-> Str(Strip(address.v)),
          issue            |-> Str(Strip(issue.v)),
          resolution       |-> Str(Strip(resolution.v)),
          signal           |-> Str(Strip(signal.v)),
          start_time       |-> Str(start_time),
          end_time         |-> Str(end_time),
          duration_minutes |-> duration_minutes,
          duration         |-> duration_minutes,
          tech_name        |-> Str(Strip(tech_name.v)),
          tech             |-> Str(Strip(tech_name.v)) ]

-----------------------------------------------------------------------------
(* The file store: jobs.json *)

Callers == {1, 2}

\* jobs.json: absent, or holding a JSON list of jobs, JSON that is no list,
\* or text that is no JSON (a partly written file included); a file that
\* exists may be unreadable to the process
AbsentFile    == [kind |-> "absent", jobs |-> <<>>, readable |-> TRUE]
ListFile(js)  == [kind |-> "list", jobs |-> js, readable |-> TRUE]

\* open(JOBS_FILE, "r") and json.load(f) on a file that exists: the decoded
\* data, or the exception raised (no permission to read, no JSON text)
ReadJson(f) ==
    IF ~f.readable THEN [raised |-> "PermissionError", data |-> f]
    ELSE IF f.kind = "malformed" THEN [raised |-> "JSONDecodeError", data |-> f]
    ELSE [raised |-> "", data |-> f]

\* a load that takes a stored list for something else and returns []
_load_jobs_from_file_ListDropped(f) ==
    IF f.kind = "absent" THEN [raised |-> FALSE, jobs |-> <<>>, log |-> {}]
    ELSE IF ReadJson(f).raised # ""
    THEN [raised |-> FALSE, jobs |-> <<>>, log |-> {"Error reading jobs.json"}]
    ELSE [raised |-> FALSE, jobs |-> <<>>, log |-> {}]

\* a load without its except clause: the exception reaches the caller
_load_jobs_from_file_NoExcept(f) ==
    IF f.kind = "absent" THEN [raised |-> FALSE, jobs |-> <<>>, log |-> {}]
    ELSE IF ReadJson(f).raised # ""
    THEN [raised |-> TRUE, jobs |-> <<>>, log |-> {}]
    ELSE IF ReadJson(f).data.kind = "list"
    THEN [raised |-> FALSE, jobs |-> ReadJson(f).data.jobs, log |-> {}]
    ELSE [raised |-> FALSE, jobs |-> <<>>, log |-> {}]

\* _load_jobs_from_file(): whether it raised, the list returned and what
\* was printed
_load_jobs_from_file(f) ==
    IF f.kind = "absent" THEN [raised |-> FALSE, jobs |-> <<>>, log |-> {}]
    ELSE IF ReadJson(f).raised # ""
    THEN [raised |-> FALSE, jobs |-> <<>>, log |-> {"Error reading jobs.json"}]
    ELSE IF ReadJson(f).data.kind = "list"
    THEN [raised |-> FALSE, jobs |-> ReadJson(f).data.jobs, log |-> {}]
    ELSE [raised |-> FALSE, jobs |-> <<>>, log |-> {}]

\* open(JOBS_FILE, "w") succeeded: the file exists and is empty
Truncated(f) ==
    [kind |-> "malformed", jobs |-> <<>>,
     readable |-> IF f.kind = "absent" THEN TRUE ELSE f.readable]

\* a dump of the appended job alone
Dumped_NewJobOnly(f, js) == [f EXCEPT !.kind = "list", !.jobs = <<js[Len(js)]>>]

\* json.dump(jobs, f, indent=2) ran to its end
Dumped(f, js) == [f EXCEPT !.kind = "list", !.jobs = js]

\* what add_job returns, after its print
Returned(js, log) ==
    [status |-> "returned", jobs |-> js, log |-> log \cup {"Saved job"}]

NoOutcome == [status |-> "none", jobs |-> <<>>, log |-> {}]

\* a call under way, with what it has printed so far
Running(log) == [status |-> "running", jobs |-> <<>>, log |-> log]

\* no request answered, an empty worksheet, no sync made
NoResp == [kind |-> "none"]

IoAtRest ==
    /\ resp = [c \in Callers |-> NoResp]
    /\ sheet = <<>>
    /\ pushed = NotRun
    /\ pulled = NotRun

\* no call of add_job under way, nothing stored
StoreAtRest ==
    /\ file = AbsentFile
    /\ pc = [c \in Callers |-> "idle"]
    /\ call = [c \in Callers |-> NotRun]
    /\ local = [c \in Callers |-> <<>>]
    /\ out = [c \in Callers |-> NoOutcome]
    /\ IoAtRest

-----------------------------------------------------------------------------
(* Inputs of compute_stats *)

MaxJobs == 3        \* longest collection handed to compute_stats

t_Jose      == <<"J","o","s","e">>
t_Ana       == <<"A","n","a">>
t_A         == <<"A">>
t_B         == <<"B">>
t_LowLight  == <<"L","o","w"," ","L","i","g","h","t">>
t_NoSignal  == <<"N","o"," ","S","i","g","n","a","l">>
t_Good      == <<"G","o","o","d">>
t_Bad       == <<"B","a","d">>
t_Below     == <<"B","e","l","o","w">>
t_SLOW      == <<"S","L","O","W">>
t_abc       == <<"a","b","c">>
t_15        == <<"1","5">>
t_Day17a    == <<"2","0","2","5","-","1","1","-","1","7"," ","1","6",":","0","0">>
t_Day17b    == <<"2","0","2","5","-","1","1","-","1","7"," ","1","6",":","0","5">>
t_Day18     == <<"2","0","2","5","-","1","1","-","1","8"," ","0","9",":","3","0">>
t_Short     == <<"2","0","2","5","-","1","1">>

\* Job dicts as a caller can hand them over: the three of the repository's
\* test, then jobs with missing, None, empty, text and fractional values.
JobPool ==
    { [duration |-> Num(Minutes(10)), signal |-> Str(t_Good), tech |-> Str(t_Jose),
       address |-> Str(t_A), issue |-> Str(t_LowLight), start_time |-> Str(t_Day17a)],
      [duration |-> Num(Minutes(20)), signal |-> Str(t_Bad), tech |-> Str(t_Jose),
       address |-> Str(t_A), issue |-> Str(t_NoSignal), start_time |-> Str(t_Day17b)],
      [duration |-> Num(Minutes(30)), signal |-> Str(t_Bad), tech |-> Str(t_Ana),
       address |-> Str(t_B), issue |-> Str(t_LowLight), start_time |-> Str(t_Day18)],
      [duration |-> Num(Minutes(30)), signal |-> Str(t_Below), address |-> Str(<<>>),
       start_time |-> Str(t_Short)],
      [duration |-> Num(1), signal |-> Str(t_SLOW), tech |-> Str(t_Ana),
       address |-> Str(t_B), issue |-> Str(t_NoSignal), start_time |-> Str(t_Day18)],
      [duration |-> Num(0), signal |-> PyNone, tech |-> Str(<<>>),
       address |-> Str(t_A), issue |-> Str(<<>>)],
      [tech |-> Str(t_Jose), issue |-> Str(t_NoSignal)],
      [duration |-> PyNone, signal |-> Str(t_Good), tech |-> PyNone,
       address |-> PyNone, issue |-> PyNone, start_time |-> PyNone],
      [duration |-> Str(t_15), signal |-> Str(t_Good), tech |-> Str(t_Ana),
       address |-> Str(t_B), issue |-> Str(t_LowLight), start_time |-> Str(t_Day17a)],
      [duration |-> Str(t_abc), signal |-> Str(t_Bad), tech |-> Str(t_Ana),
       address |-> Str(t_A), issue |-> Str(t_LowLight), start_time |-> Str(t_Day18)] }

JobSeqs == UNION {[1..n -> JobPool] : n \in 0..MaxJobs}

-----------------------------------------------------------------------------
(* Specification of the statistics engine: one call on any collection *)

InitStats ==
    /\ jobs \in JobSeqs
    /\ stats = NotRun
    /\ args = NotRun
    /\ created = NotRun
    /\ StoreAtRest

\* stats = compute_stats(jobs)
ComputeStats ==
    /\ stats = NotRun
    /\ stats' = compute_stats(jobs)
    /\ UNCHANGED <<jobs, createVars, storeVars, apiVars, sheetVars>>

NextStats == ComputeStats

SpecStats == InitStats /\ [][NextStats]_vars

-----------------------------------------------------------------------------
(* Properties of compute_stats *)

Abs(x) == IF x < 0 THEN -x ELSE x

Reported == stats.t = "report"

\* the job's 'duration' is a number, None or absent
HasNumericDuration(job) ==
    "duration" \in DOMAIN job => job["duration"].t \in {"num", "none"}

\* what such a job counts for, in eighths of a minute
NumericDuration(job) ==
    IF "duration" \in DOMAIN job /\ job["duration"].t = "num"
    THEN job["duration"].v ELSE 0

RECURSIVE SumOver(_, _)
\* the sum of f over the finite set S of its arguments
SumOver(f, S) ==
    IF S = {} THEN 0
    ELSE LET x == CHOOSE y \in S : TRUE IN f[x] + SumOver(f, S \ {x})

DurationSum == SumOver([i \in DOMAIN jobs |-> NumericDuration(jobs[i])], DOMAIN jobs)

NumericJobs == \A i \in DOMAIN jobs : HasNumericDuration(jobs[i])

\* C1 as stated: on jobs with numeric durations total_jobs is the number of
\* jobs, total_minutes is exactly the sum of the durations and avg_minutes
\* is exactly total_minutes / total_jobs.
C1_ExactTotals ==
    (Reported /\ NumericJobs) =>
        /\ stats.v.total_jobs = Len(jobs)
        /\ 8 * stats.v.total_minutes = 100 * DurationSum
        /\ Len(jobs) > 0 =>
             8 * Len(jobs) * stats.v.avg_minutes = 100 * DurationSum

\* C1 amended: on jobs with numeric durations total_jobs is the number of
\* jobs, total_minutes is the sum of the durations (missing, None and zero
\* counting 0) rounded to two decimal places, and avg_minutes is that
\* unrounded sum divided by total_jobs, rounded to two decimal places: each
\* is a whole number of hundredths at most half a hundredth from the exact
\* value.
C1_RoundedTotals ==
    (Reported /\ NumericJobs) =>
        /\ stats.v.total_jobs = Len(jobs)
        /\ 2 * Abs(100 * DurationSum - 8 * stats.v.total_minutes) <= 8
        /\ Len(jobs) > 0 =>
             2 * Abs(100 * DurationSum - 8 * Len(jobs) * stats.v.avg_minutes)
                <= 8 * Len(jobs)

\* durations [10, 20, 30] give total 60.00 and average 20.00
C1_Witness ==
    /\ Reported
    /\ Len(jobs) = 3
    /\ \A i \in 1..3 : HasNumericDuration(jobs[i])
                       /\ NumericDuration(jobs[i]) = Minutes(10 * i)
    /\ stats.v.total_minutes = 6000
    /\ stats.v.avg_minutes = 2000

\* C2 as stated: compute_stats returns a report whatever the 'duration'
\* values are, a job whose duration is absent or does not convert to a
\* number counting 0.
C2_NeverFails ==
    stats # NotRun =>
        /\ Reported
        /\ 2 * Abs(100 * SumOver([i \in DOMAIN jobs |->
                                    IF Float(DurationArg(jobs[i])).ok
                                    THEN Float(DurationArg(jobs[i])).v ELSE 0],
                                 DOMAIN jobs)
                   - 8 * stats.v.total_minutes) <= 8

\* the duration compute_stats converted job i to
Dur(i) == Float(DurationArg(jobs[i])).v

\* C3: on a non-empty collection longest_job is the first job, in collection
\* order, whose duration is the maximum, and shortest_job the first whose
\* duration is the minimum.
C3_StableExtremes ==
    (Reported /\ jobs # <<>>) =>
        /\ \E i \in DOMAIN jobs :
              /\ \A k \in DOMAIN jobs : Dur(k) <= Dur(i)
              /\ \A k \in 1..(i - 1) : Dur(k) < Dur(i)
              /\ stats.v.longest_job = jobs[i]
        /\ \E i \in DOMAIN jobs :
              /\ \A k \in DOMAIN jobs : Dur(k) >= Dur(i)
              /\ \A k \in 1..(i - 1) : Dur(k) > Dur(i)
              /\ stats.v.shortest_job = jobs[i]

\* two different jobs share the maximum and the earlier one is reported
C3_Witness ==
    /\ Reported
    /\ Len(jobs) = 3
    /\ Dur(1) < Dur(2) /\ Dur(2) = Dur(3)
    /\ jobs[2] # jobs[3]
    /\ stats.v.longest_job = jobs[2]

\* the job's signal is a text that, lower-cased, holds a bad-signal word
ClaimBadSignal(job) ==
    /\ "signal" \in DOMAIN job
    /\ job["signal"].t = "str"
    /\ \E w \in { <<"b","a","d">>, <<"p","o","o","r">>,
                  <<"w","e","a","k">>, <<"l","o","w">> } :
          \E a, b \in 0..Len(job["signal"].v) :
              /\ a + Len(w) + b = Len(job["signal"].v)
              /\ \A k \in 1..Len(w) : LowerChar(job["signal"].v[a + k]) = w[k]

BadJobs == {i \in DOMAIN jobs : ClaimBadSignal(jobs[i])}

\* C4 as stated: bad_signal_count counts the jobs with a bad signal and
\* bad_signal_percent is exactly 100 * bad_signal_count / total_jobs.
C4_ExactPercent ==
    (Reported /\ jobs # <<>>) =>
        /\ stats.v.bad_signal_count = Cardinality(BadJobs)
        /\ Len(jobs) * stats.v.bad_signal_percent = 100 * 100 * Cardinality(BadJobs)

\* C4 amended: bad_signal_count is the number of jobs whose signal text,
\* lower-cased, contains 'bad', 'poor', 'weak' or 'low' as a substring (a
\* missing signal never counts), and bad_signal_percent is
\* 100 * bad_signal_count / total_jobs rounded to two decimal places.
C4_BadSignals ==
    (Reported /\ jobs # <<>>) =>
        /\ stats.v.bad_signal_count = Cardinality(BadJobs)
        /\ 2 * Abs(100 * 100 * Cardinality(BadJobs)
                   - Len(jobs) * stats.v.bad_signal_percent) <= Len(jobs)

\* signals Good, Bad, Bad give count 2 and 66.67 percent
C4_Witness ==
    /\ Reported
    /\ Len(jobs) = 3
    /\ Get(jobs[1], "signal", PyNone) = Str(t_Good)
    /\ Get(jobs[2], "signal", PyNone) = Str(t_Bad)
    /\ Get(jobs[3], "signal", PyNone) = Str(t_Bad)
    /\ stats.v.bad_signal_count = 2
    /\ stats.v.bad_signal_percent = 6667

\* the label a job is counted under: its field, or 'Unknown' when the field
\* is absent, None or empty
ClaimLabel(job, key) ==
    IF key \in DOMAIN job /\ job[key].t = "str" /\ job[key].v # <<>>
    THEN job[key] ELSE Str(Unknown)

\* mapping m counts the jobs by their label under key
CountsBy(m, key) ==
    /\ DOMAIN m = {ClaimLabel(jobs[i], key) : i \in DOMAIN jobs}
    /\ \A l \in DOMAIN m :
          /\ m[l] = Cardinality({i \in DOMAIN jobs : ClaimLabel(jobs[i], key) = l})
          /\ m[l] > 0
    /\ SumOver(m, DOMAIN m) = Len(jobs)

\* C5: jobs_per_tech and jobs_per_address map each label to the number of
\* jobs whose tech (address) is that label, a missing or empty field counting
\* under 'Unknown'; no label has count 0 and the counts sum to total_jobs.
C5_CategoryCounts ==
    Reported =>
        /\ CountsBy(stats.v.jobs_per_tech, "tech")
        /\ CountsBy(stats.v.jobs_per_address, "address")
        /\ SumOver(stats.v.jobs_per_tech, DOMAIN stats.v.jobs_per_tech)
             = stats.v.total_jobs

\* techs Jose, Jose and a job without tech give {Jose: 2, Unknown: 1}
C5_Witness ==
    /\ Reported
    /\ Len(jobs) = 3
    /\ Get(jobs[1], "tech", PyNone) = Str(t_Jose)
    /\ Get(jobs[2], "tech", PyNone) = Str(t_Jose)
    /\ "tech" \notin DOMAIN jobs[3]
    /\ DOMAIN stats.v.jobs_per_tech = {Str(t_Jose), Str(Unknown)}
    /\ stats.v.jobs_per_tech[Str(t_Jose)] = 2
    /\ stats.v.jobs_per_tech[Str(Unknown)] = 1

\* how many jobs carry issue label l, and where l occurs first
IssueCount(l) == Cardinality({i \in DOMAIN jobs : ClaimLabel(jobs[i], "issue") = l})
IssueFirst(l) == CHOOSE i \in DOMAIN jobs :
                    /\ ClaimLabel(jobs[i], "issue") = l
                    /\ \A k \in 1..(i - 1) : ClaimLabel(jobs[k], "issue") # l
IssueLabels == {ClaimLabel(jobs[i], "issue") : i \in DOMAIN jobs}

C7_EmptyReport ==
    (jobs = <<>> /\ stats # NotRun) =>
        /\ Reported
        /\ stats.v.total_jobs = 0
        /\ stats.v.total_minutes = 0
        /\ stats.v.avg_minutes = 0
        /\ stats.v.bad_signal_count = 0
        /\ stats.v.bad_signal_percent = 0
        /\ stats.v.longest_job = PyNone
        /\ stats.v.shortest_job = PyNone
        /\ DOMAIN stats.v.jobs_per_tech = {}
        /\ DOMAIN stats.v.jobs_per_address = {}
        /\ DOMAIN stats.v.jobs_per_day = {}
        /\ "most_common_issue" \notin DOMAIN stats.v

C7_Witness == jobs = <<>> /\ Reported

\* the day a job is counted under: the first 10 characters of its
\* start_time, or 'Unknown' when start_time is absent, None, empty or shorter
ClaimDay(job) ==
    IF /\ "start_time" \in DOMAIN job
       /\ job["start_time"].t = "str"
       /\ Len(job["start_time"].v) >= 10
    THEN Str([k \in 1..10 |-> job["start_time"].v[k]])
    ELSE Str(Unknown)

\* C15: jobs_per_day maps each key to the number of jobs having that key,
\* the key of a job being the first 10 characters of its start_time, or
\* 'Unknown' when start_time is missing, empty or shorter than 10 characters.
C15_JobsPerDay ==
    Reported =>
        /\ DOMAIN stats.v.jobs_per_day = {ClaimDay(jobs[i]) : i \in DOMAIN jobs}
        /\ \A d \in DOMAIN stats.v.jobs_per_day :
              stats.v.jobs_per_day[d]
                = Cardinality({i \in DOMAIN jobs : ClaimDay(jobs[i]) = d})

\* two jobs of one day at different times share a key, a job with a short
\* start_time is counted under 'Unknown'
C15_Witness ==
    /\ Reported
    /\ Len(jobs) = 3
    /\ Get(jobs[1], "start_time", PyNone) = Str(t_Day17a)
    /\ Get(jobs[2], "start_time", PyNone) = Str(t_Day17b)
    /\ Get(jobs[3], "start_time", PyNone) = Str(t_Short)
    /\ DOMAIN stats.v.jobs_per_day
         = {Str(<<"2","0","2","5","-","1","1","-","1","7">>), Str(Unknown)}
    /\ stats.v.jobs_per_day[Str(<<"2","0","2","5","-","1","1","-","1","7">>)] = 2
    /\ stats.v.jobs_per_day[Str(Unknown)] = 1

-----------------------------------------------------------------------------
(* Specification of the job factory: one call on any arguments *)

\* texts a form or a request can carry: padded, plain, blank and empty
ArgTexts == { Str(<<" ","5","6","7"," ","D","\t">>), Str(t_Jose),
              Str(<<"\n"," ">>), Str(<<>>) }

Clock == { [year |-> 2025, month |-> 11, day |-> 17, hour |-> 16, minute |-> 0],
           [year |-> 2026, month |-> 1, day |-> 5, hour |-> 9, minute |-> 30] }

InitCreate ==
    /\ args \in [ job_id : ArgTexts, address : ArgTexts, issue : ArgTexts,
                  resolution : ArgTexts, signal : ArgTexts, tech_name : ArgTexts,
                  now : Clock ]
    /\ created = NotRun
    /\ jobs = <<>>
    /\ stats = NotRun
    /\ StoreAtRest

\* created = create_job(...)
CreateJob ==
    /\ created = NotRun
    /\ created' = create_job(args.job_id, args.address, args.issue, args.resolution,
                             args.signal, args.tech_name, args.now)
    /\ UNCHANGED <<args, statsVars, storeVars, apiVars, sheetVars>>

NextCreate == CreateJob

SpecCreate == InitCreate /\ [][NextCreate]_vars

\* r is s without its leading and trailing whitespace
IsStripped(r, s) ==
    /\ r.t = "str"
    /\ \E a, b \in 0..Len(s.v) :
          /\ a + Len(r.v) + b = Len(s.v)
          /\ \A k \in 1..Len(r.v) : r.v[k] = s.v[a + k]
          /\ \A k \in 1..a : s.v[k] \in Whitespace
          /\ \A k \in (Len(s.v) - b + 1)..Len(s.v) : s.v[k] \in Whitespace
    /\ r.v # <<>> => r.v[1] \notin Whitespace /\ r.v[Len(r.v)] \notin Whitespace

\* C8: create_job returns a record with tech_name = tech,
\* duration_minutes = duration = 0, start_time = end_time, and id, address,
\* issue, resolution, signal and tech equal to the inputs without their
\* leading and trailing whitespace.
C8_CreateJob ==
    created # NotRun =>
        /\ created.tech_name = created.tech
        /\ created.duration_minutes = Num(0)
        /\ created.duration = Num(0)
        /\ created.start_time = created.end_time
        /\ IsStripped(created.id, args.job_id)
        /\ IsStripped(created.address, args.address)
        /\ IsStripped(created.issue, args.issue)
        /\ IsStripped(created.resolution, args.resolution)
        /\ IsStripped(created.signal, args.signal)
        /\ IsStripped(created.tech, args.tech_name)

\* a padded address came back trimmed, a blank technician came back empty
C8_Witness ==
    /\ created # NotRun
    /\ args.address = Str(<<" ","5","6","7"," ","D","\t">>)
    /\ created.address = Str(<<"5","6","7"," ","D">>)
    /\ args.tech_name = Str(<<"\n"," ">>)
    /\ created.tech = Str(<<>>)
    /\ created.start_time = Str(<<"2","0","2","6","-","0","1","-","0","5"," ","0","9",":","3","0">>)

-----------------------------------------------------------------------------
(* add_job, step by step: load and append, open for writing, dump *)

MaxStored == 3      \* add_job is not called on a store of this many jobs

\* the jobs callers add: two records of the factory
NewJobs ==
    { create_job(Str(<<"1">>), Str(t_A), Str(t_LowLight), Str(<<"o","k">>),
                 Str(t_Good), Str(t_Jose),
                 [year |-> 2025, month |-> 11, day |-> 17, hour |-> 16, minute |-> 0]),
      create_job(Str(<<"2">>), Str(t_B), Str(t_NoSignal), Str(<<"o","k">>),
                 Str(t_Bad), Str(t_Ana),
                 [year |-> 2025, month |-> 11, day |-> 18, hour |-> 9, minute |-> 30]) }

\* jobs = _load_jobs_from_file(); jobs.append(job)
AddJobLoadStep(c, job) ==
    /\ pc[c] = "idle"
    /\ Len(_load_jobs_from_file(file).jobs) < MaxStored
    /\ call' = [call EXCEPT ![c] = [job |-> job, start |-> file]]
    /\ local' = [local EXCEPT ![c] = Append(_load_jobs_from_file(file).jobs, job)]
    /\ out' = [out EXCEPT ![c] = Running(_load_jobs_from_file(file).log)]
    /\ pc' = [pc EXCEPT ![c] = "loaded"]
    /\ UNCHANGED <<file, statsVars, createVars, sheetVars>>

\* add_job(job) called directly: its first step
AddJobLoad(c, job) ==
    /\ AddJobLoadStep(c, job)
    /\ UNCHANGED apiVars

\* _save_jobs_to_file: open(JOBS_FILE, "w") succeeds and empties the file
AddJobOpen(c) ==
    /\ pc[c] = "loaded"
    /\ file' = Truncated(file)
    /\ pc' = [pc EXCEPT ![c] = "opened"]
    /\ UNCHANGED <<call, local, out, statsVars, createVars, apiVars, sheetVars>>

\* _save_jobs_to_file: open(JOBS_FILE, "w") raises; the except clause prints,
\* add_job prints and returns its list
AddJobOpenFails(c) ==
    /\ pc[c] = "loaded"
    /\ out' = [out EXCEPT ![c] =
                 Returned(local[c], out[c].log \cup {"Error writing jobs.json"})]
    /\ pc' = [pc EXCEPT ![c] = "idle"]
    /\ UNCHANGED <<file, call, local, statsVars, createVars, apiVars, sheetVars>>

\* _save_jobs_to_file: json.dump writes the whole list; add_job prints and
\* returns its list
AddJobDump(c) ==
    /\ pc[c] = "opened"
    /\ file' = Dumped(file, local[c])
    /\ out' = [out EXCEPT ![c] = Returned(local[c], out[c].log)]
    /\ pc' = [pc EXCEPT ![c] = "idle"]
    /\ UNCHANGED <<call, local, statsVars, createVars, apiVars, sheetVars>>

\* _save_jobs_to_file: json.dump raises part-way (a value that is not JSON, a
\* full disk); the emptied file keeps what was written so far, which is no
\* JSON document; the except clause prints, add_job prints and returns
AddJobDumpFails(c) ==
    /\ pc[c] = "opened"
    /\ file' = Truncated(file)
    /\ out' = [out EXCEPT ![c] =
                 Returned(local[c], out[c].log \cup {"Error writing jobs.json"})]
    /\ pc' = [pc EXCEPT ![c] = "idle"]
    /\ UNCHANGED <<call, local, statsVars, createVars, apiVars, sheetVars>>

\* the files a run can start from
InitFiles ==
    {AbsentFile}
    \cup { [kind |-> k, jobs |-> <<>>, readable |-> r] :
             k \in {"notlist", "malformed"}, r \in BOOLEAN }
    \cup { [kind |-> "list", jobs |-> js, readable |-> r] :
             js \in UNION {[1..n -> NewJobs] : n \in 0..1}, r \in BOOLEAN }

InitStore ==
    /\ file \in InitFiles
    /\ pc = [c \in Callers |-> "idle"]
    /\ call = [c \in Callers |-> NotRun]
    /\ local = [c \in Callers |-> <<>>]
    /\ out = [c \in Callers |-> NoOutcome]
    /\ IoAtRest
    /\ jobs = <<>>
    /\ stats = NotRun
    /\ args = NotRun
    /\ created = NotRun

\* callers take turns: a call starts only when no other call is under way
AddJobLoadInTurn(c, job) ==
    /\ \A d \in Callers : pc[d] = "idle"
    /\ AddJobLoad(c, job)

NextStore ==
    \/ \E c \in Callers, job \in NewJobs : AddJobLoadInTurn(c, job)
    \/ \E c \in Callers : AddJobOpen(c)
    \/ \E c \in Callers : AddJobOpenFails(c)
    \/ \E c \in Callers : AddJobDump(c)
    \/ \E c \in Callers : AddJobDumpFails(c)

SpecStore == InitStore /\ [][NextStore]_vars

\* caller c's call of add_job ends in this step
Ends(c) == pc[c] # "idle" /\ pc'[c] = "idle"

\* ... and its write failed
WriteFailed(c) == "Error writing jobs.json" \in out'[c].log

\* C9 as stated: when the write of an add_job fails, the failure is printed
\* and not raised, and a load afterwards returns the jobs a load returned
\* before the call.
C9_FailedWriteKeepsStore ==
    [][\A c \in Callers :
         (Ends(c) /\ WriteFailed(c)) =>
            /\ out'[c].status = "returned"
            /\ _load_jobs_from_file(file').jobs
                 = _load_jobs_from_file(call[c].start).jobs]_vars

\* C10: a call of add_job that starts from a stored list, runs alone and
\* writes without failure leaves in the store that list followed by the
\* added job, every earlier job unchanged and in place, and returns that
\* list.
C10_AppendOnly ==
    [][\A c \in Callers :
         (Ends(c) /\ ~WriteFailed(c)
            /\ call[c].start.kind = "list" /\ call[c].start.readable) =>
            /\ file'.kind = "list"
            /\ file'.jobs = call[c].start.jobs \o <<call[c].job>>
            /\ _load_jobs_from_file(file').jobs = file'.jobs
            /\ out'[c].jobs = file'.jobs]_vars

\* two calls in turn, by different callers, have grown a stored one-job list
\* to three jobs
C10_Witness ==
    /\ file.kind = "list" /\ file.readable
    /\ Len(file.jobs) = 3
    /\ \A c \in Callers : pc[c] = "idle" /\ out[c].status = "returned"
    /\ out[2].jobs = file.jobs
    /\ out[1].jobs = SubSeq(file.jobs, 1, 2)
    /\ call[1].start = ListFile(SubSeq(file.jobs, 1, 1))
    /\ file.jobs[2] # file.jobs[3]

-----------------------------------------------------------------------------
(* add_job from two callers at once: the steps of the calls interleave *)

NextRace ==
    \/ \E c \in Callers, job \in NewJobs : AddJobLoad(c, job)
    \/ \E c \in Callers : AddJobOpen(c)
    \/ \E c \in Callers : AddJobOpenFails(c)
    \/ \E c \in Callers : AddJobDump(c)
    \/ \E c \in Callers : AddJobDumpFails(c)

SpecRace == InitStore /\ [][NextRace]_vars

\* caller c's last call of add_job has returned and its write did not fail
Completed(c) ==
    /\ pc[c] = "idle"
    /\ out[c].status = "returned"
    /\ "Error writing jobs.json" \notin out[c].log

\* C11: two calls of add_job that both loaded the same stored list and both
\* completed leave the store with that list and the job of one of them only:
\* the other update is lost.
C11_OneUpdateSurvives ==
    ( /\ Completed(1) /\ Completed(2)
      /\ call[1].start = call[2].start
      /\ call[1].start.kind = "list" /\ call[1].start.readable ) =>
        /\ file.kind = "list"
        /\ \E c \in Callers : file.jobs = call[1].start.jobs \o <<call[c].job>>
        /\ Len(file.jobs) = Len(call[1].start.jobs) + 1

\* both calls started from the same stored list and completed, each was
\* handed a list ending in its own job, and the store holds the job of
\* caller 2 and not the job of caller 1
C11_LostUpdate ==
    /\ Completed(1) /\ Completed(2)
    /\ call[1].start = call[2].start
    /\ call[1].start.kind = "list" /\ call[1].start.readable
    /\ call[1].job # call[2].job
    /\ out[1].jobs = call[1].start.jobs \o <<call[1].job>>
    /\ out[2].jobs = call[2].start.jobs \o <<call[2].job>>
    /\ file = ListFile(out[2].jobs)
    /\ \A i \in DOMAIN file.jobs : file.jobs[i] # call[1].job

-----------------------------------------------------------------------------
(* The REST facade: GET /jobs and POST /jobs *)

\* the fields of JobIn, all of them required (Field(...)) and typed str
JobInFields == {"id", "address", "issue", "resolution", "signal", "tech_name"}

\* a JobIn whose fields are constrained to at least one character
ValidBody_NonEmpty(body) ==
    \A k \in JobInFields :
        k \in DOMAIN body /\ body[k].t = "str" /\ body[k].v # <<>>

\* the body passes the validation of JobIn
ValidBody(body) ==
    \A k \in JobInFields : k \in DOMAIN body /\ body[k].t = "str"

\* request bodies: a complete one with padded text, one with empty texts,
\* one lacking a field, one with a null, and the empty object
Bodies ==
    { [id |-> Str(<<"3">>), address |-> Str(<<" ","5","6","7"," ","D","\t">>),
       issue |-> Str(t_LowLight), resolution |-> Str(<<"o","k">>),
       signal |-> Str(t_Good), tech_name |-> Str(t_Jose)],
      [id |-> Str(<<"4">>), address |-> Str(t_A), issue |-> Str(t_NoSignal),
       resolution |-> Str(<<>>), signal |-> Str(t_Bad), tech_name |-> Str(<<>>)],
      [id |-> Str(<<"5">>), address |-> Str(t_A), issue |-> Str(t_LowLight),
       resolution |-> Str(<<"o","k">>), signal |-> Str(t_Good)],
      [id |-> Str(<<"6">>), address |-> Str(t_A), issue |-> PyNone,
       resolution |-> Str(<<"o","k">>), signal |-> Str(t_Good),
       tech_name |-> Str(t_Jose)],
      <<>> }

\* the reading of the clock while the facade is observed
ApiClock == {[year |-> 2026, month |-> 1, day |-> 5, hour |-> 9, minute |-> 30]}

\* no POST /jobs is being served
NoPostUnderWay == \A d \in Callers : pc[d] = "idle" /\ resp[d].kind # "pending"

\* GET /jobs: {"count": len(jobs), "jobs": jobs}; an exception out of the
\* handler is answered 500
ListJobs(c) ==
    /\ pc[c] = "idle" /\ resp[c].kind # "pending"
    /\ resp' = [resp EXCEPT ![c] =
                 IF _load_jobs_from_file(file).raised
                 THEN [kind |-> "failed", status |-> 500]
                 ELSE [kind |-> "jobs", status |-> 200,
                       count |-> Len(_load_jobs_from_file(file).jobs),
                       jobs |-> _load_jobs_from_file(file).jobs]]
    /\ UNCHANGED <<storeVars, statsVars, createVars, sheetVars>>

\* POST /jobs with a body JobIn refuses: 422, the handler does not run
PostJobsRefused(c, body) ==
    /\ NoPostUnderWay
    /\ ~ValidBody(body)
    /\ resp' = [resp EXCEPT ![c] = [kind |-> "refused", status |-> 422, body |-> body]]
    /\ UNCHANGED <<storeVars, statsVars, createVars, sheetVars>>

\* POST /jobs with a body JobIn accepts: new_job = att_tools.create_job(...)
\* and the first step of att_tools.add_job(new_job)
PostJobsAccepted(c, body, now) ==
    /\ NoPostUnderWay
    /\ ValidBody(body)
    /\ AddJobLoadStep(c, create_job(body.id, body.address, body.issue,
                                    body.resolution, body.signal, body.tech_name, now))
    /\ resp' = [resp EXCEPT ![c] =
                 [kind |-> "pending", status |-> 0, body |-> body,
                  job |-> create_job(body.id, body.address, body.issue,
                                     body.resolution, body.signal, body.tech_name, now)]]

\* POST /jobs: add_job has returned; return {"saved": True, "job": new_job}
PostJobsReturn(c) ==
    /\ resp[c].kind = "pending"
    /\ pc[c] = "idle"
    /\ resp' = [resp EXCEPT ![c] =
                 [kind |-> "saved", status |-> 200, body |-> resp[c].body,
                  saved |-> TRUE, job |-> resp[c].job]]
    /\ UNCHANGED <<storeVars, statsVars, createVars, sheetVars>>

\* the facade is observed through one client, its requests made in turn
ApiCallers == {1}

NextApi ==
    \/ \E c \in ApiCallers : ListJobs(c)
    \/ \E c \in ApiCallers, body \in Bodies : PostJobsRefused(c, body)
    \/ \E c \in ApiCallers, body \in Bodies, now \in ApiClock :
          PostJobsAccepted(c, body, now)
    \/ \E c \in ApiCallers : AddJobOpen(c)
    \/ \E c \in ApiCallers : AddJobOpenFails(c)
    \/ \E c \in ApiCallers : AddJobDump(c)
    \/ \E c \in ApiCallers : AddJobDumpFails(c)
    \/ \E c \in ApiCallers : PostJobsReturn(c)

SpecApi == InitStore /\ [][NextApi]_vars

\* caller c is answered a GET /jobs in this step
GetAnswered(c) == resp'[c] # resp[c] /\ resp'[c].kind \in {"jobs", "failed"}

\* C12: loading the store never raises to the caller: GET /jobs is answered
\* with the stored list when the file is readable and holds a JSON list, and
\* with the empty list when the file is absent, unreadable, no JSON, or JSON
\* that is no list.
C12_LoadNeverRaises ==
    [][\A c \in Callers :
         GetAnswered(c) =>
            /\ resp'[c].kind = "jobs"
            /\ resp'[c].jobs = IF file.kind = "list" /\ file.readable
                               THEN file.jobs ELSE <<>>
            /\ resp'[c].count = Len(resp'[c].jobs)]_vars

\* GET /jobs answered the empty list from a file that holds no JSON, before
\* any job was added
C12_Witness ==
    /\ file.kind = "malformed" /\ file.readable
    /\ \A c \in Callers : out[c] = NoOutcome
    /\ resp[1].kind = "jobs"
    /\ resp[1].count = 0

\* every field of JobIn is in the body and is a string; with nonEmpty, a
\* string of at least one character
Complete(body, nonEmpty) ==
    \A k \in {"id", "address", "issue", "resolution", "signal", "tech_name"} :
        /\ k \in DOMAIN body
        /\ body[k].t = "str"
        /\ nonEmpty => body[k].v # <<>>

\* the jobs a load of file f yields
StoredIn(f) == IF f.kind = "list" /\ f.readable THEN f.jobs ELSE <<>>

\* what POST /jobs does for the bodies Complete accepts and for the others
PostJobsContract(nonEmpty) ==
    \A c \in Callers :
        resp'[c] # resp[c] =>
            /\ resp'[c].kind = "refused" =>
                  /\ ~Complete(resp'[c].body, nonEmpty)
                  /\ resp'[c].status \in 400..499
                  /\ UNCHANGED storeVars
            /\ resp'[c].kind = "pending" => Complete(resp'[c].body, nonEmpty)
            /\ resp'[c].kind = "saved" =>
                  /\ Complete(resp'[c].body, nonEmpty)
                  /\ resp'[c].saved = TRUE
                  /\ resp'[c].job = call[c].job
                  /\ \A k \in {"id", "address", "issue", "resolution", "signal"} :
                        IsStripped(resp'[c].job[k], resp'[c].body[k])
                  /\ IsStripped(resp'[c].job.tech_name, resp'[c].body.tech_name)
                  /\ resp'[c].job.tech = resp'[c].job.tech_name
                  /\ "Error writing jobs.json" \notin out[c].log =>
                        /\ file.kind = "list"
                        /\ file.jobs = StoredIn(call[c].start) \o <<resp'[c].job>>

-----------------------------------------------------------------------------
(* Google Sheets: append_job_to_sheet and load_jobs_from_sheet *)

MaxRows == 2        \* append_job_to_sheet is not called on a sheet this long

\* the columns of the worksheet, in the order of the row append_job_to_sheet
\* builds; load_jobs_from_sheet reads them by these headers
Columns == <<"Tech", "ID", "Address", "Issue", "Resolution", "Signal",
             "Start Time", "End Time", "Duration(min)">>

\* the row for a job
RowOf(job) ==
    << Get(job, "tech_name", Str(<<>>)), Get(job, "id", Str(<<>>)),
       Get(job, "address", Str(<<>>)), Get(job, "issue", Str(<<>>)),
       Get(job, "resolution", Str(<<>>)), Get(job, "signal", Str(<<>>)),
       Get(job, "start_time", Str(<<>>)), Get(job, "end_time", Str(<<>>)),
       Get(job, "duration_minutes", Num(0)) >>

\* worksheet.get_all_records(): one dict per data row, keyed by the header;
\* a cell whose text is a decimal integer comes back as that number, which
\* is why the code wraps the ID in str() and the duration in float()
Numericise(cell) ==
    IF cell.t = "str" /\ IsDigits(cell.v) THEN Num(DigitsValue(cell.v)) ELSE cell

get_all_records(rows) ==
    [i \in DOMAIN rows |->
        [h \in {Columns[k] : k \in DOMAIN Columns} |->
            Numericise(rows[i][CHOOSE k \in DOMAIN Columns : Columns[k] = h])]]

\* r.get(header, "").strip() raises AttributeError on a number
CanStrip(r) ==
    \A h \in {"Tech", "Address", "Issue", "Resolution", "Signal",
              "Start Time", "End Time"} : r[h].t = "str"

\* the dict built for one record
SheetJob(r) ==
    [ tech       |-> Str(Strip(r["Tech"].v)),
      id         |-> Str(Strip(PyStr(r["ID"]))),
      address    |-> Str(Strip(r["Address"].v)),
      issue      |-> Str(Strip(r["Issue"].v)),
      resolution |-> Str(Strip(r["Resolution"].v)),
      signal     |-> Str(Strip(r["Signal"].v)),
      start_time |-> Str(Strip(r["Start Time"].v)),
      end_time   |-> Str(Strip(r["End Time"].v)),
      duration   |-> IF Float(Or(r["Duration(min)"], Num(0))).ok
                     THEN Num(Float(Or(r["Duration(min)"], Num(0))).v)
                     ELSE Num(0) ]

\* load_jobs_from_sheet() with a working client: the jobs, or [] when the
\* loop raises and the outer except clause catches
load_jobs_from_sheet(rows) ==
    IF \A i \in DOMAIN rows : CanStrip(get_all_records(rows)[i])
    THEN [i \in DOMAIN rows |-> SheetJob(get_all_records(rows)[i])]
    ELSE <<>>

\* jobs of the factory handed to the sync: plain texts, an id with leading
\* zeros, an address that is a number
SheetJobs ==
    { create_job(id, address, Str(t_LowLight), Str(<<"o","k">>), Str(t_Good),
                 tech, [year |-> 2025, month |-> 11, day |-> 17,
                        hour |-> 16, minute |-> 0]) :
        id \in {Str(<<"1","2","3">>), Str(<<"0","0","7">>), Str(<<"A","7">>)},
        address \in {Str(<<"5","6","7"," ","D">>), Str(<<"1","2">>)},
        tech \in {Str(t_Jose), Str(<<>>)} }

InitSheet ==
    /\ sheet = <<>>
    /\ pushed = NotRun
    /\ pulled = NotRun
    /\ resp = [c \in Callers |-> NoResp]
    /\ file = AbsentFile
    /\ pc = [c \in Callers |-> "idle"]
    /\ call = [c \in Callers |-> NotRun]
    /\ local = [c \in Callers |-> <<>>]
    /\ out = [c \in Callers |-> NoOutcome]
    /\ jobs = <<>>
    /\ stats = NotRun
    /\ args = NotRun
    /\ created = NotRun

\* append_job_to_sheet(job) returns True: the row is appended
SheetPush(job) ==
    /\ Len(sheet) < MaxRows
    /\ sheet' = Append(sheet, RowOf(job))
    /\ pushed' = [t |-> "pushed", v |-> TRUE, job |-> job]
    /\ pulled' = NotRun
    /\ UNCHANGED <<statsVars, createVars, storeVars, apiVars>>

\* append_job_to_sheet(job) returns False: no client, or the request raised
SheetPushFails(job) ==
    /\ Len(sheet) < MaxRows
    /\ pushed' = [t |-> "pushed", v |-> FALSE, job |-> job]
    /\ pulled' = NotRun
    /\ UNCHANGED <<sheet, statsVars, createVars, storeVars, apiVars>>

\* load_jobs_from_sheet() with a working client and connection
SheetPull ==
    /\ pulled' = [t |-> "pulled", v |-> TRUE, jobs |-> load_jobs_from_sheet(sheet)]
    /\ UNCHANGED <<sheet, pushed, statsVars, createVars, storeVars, apiVars>>

\* load_jobs_from_sheet() without a client, or the request raised: []
SheetPullFails ==
    /\ pulled' = [t |-> "pulled", v |-> FALSE, jobs |-> <<>>]
    /\ UNCHANGED <<sheet, pushed, statsVars, createVars, storeVars, apiVars>>

NextSheet ==
    \/ \E job \in SheetJobs : SheetPush(job)
    \/ \E job \in SheetJobs : SheetPushFails(job)
    \/ SheetPull
    \/ SheetPullFails

SpecSheet == InitSheet /\ [][NextSheet]_vars

\* the last job was pushed with success and the sheet was then pulled over
\* a working connection
RoundTripped == pushed.t = "pushed" /\ pushed.v /\ pulled.t = "pulled" /\ pulled.v

\* C14 as stated: a job built by create_job, pushed with append_job_to_sheet
\* and pulled back with load_jobs_from_sheet comes back as the last record,
\* with the same id, address, issue, resolution and signal, and with
\* 'duration' equal to the original 'duration_minutes'.
C14_SheetRoundTrip ==
    RoundTripped =>
        /\ Len(pulled.jobs) = Len(sheet)
        /\ \A k \in {"id", "address", "issue", "resolution", "signal"} :
              pulled.jobs[Len(sheet)][k] = pushed.job[k]
        /\ pulled.jobs[Len(sheet)].duration = pushed.job.duration_minutes
=============================================================================
